---- MODULE Spec2Model ----
(***************************************************************************)
(* Model of src/lru_cache.py: class LRUCache, a dictionary whose entries   *)
(* carry "value", "prev" and "next" fields that simulate a doubly linked   *)
(* recency queue, with the least and most recently used keys tracked       *)
(* separately.  Every method is modelled statement by statement; a         *)
(* dictionary lookup of a key that is not in the dictionary raises         *)
(* KeyError and leaves the assignments made before it in place.            *)
(***************************************************************************)
EXTENDS Integers, Sequences, FiniteSets, TLC

\* ---------------------------------------------------------------- bounds
NumValues == 2
MaxCapacity == 3

\* Python's None; never a key and never a value.
None == 0

\* The key universe: three keys overflow the caches of capacity 1 and 2 and
\* give a cache of capacity 3 an entry with both neighbours.  (A fourth key
\* takes the reachable states past two million.)
Keys == {1, 2, 3}
Values == 1..NumValues
Capacities == 1..MaxCapacity

\* what a caller may hand to __init__: the capacities and some numbers below 1
CapacityArgs == {-2, -1, 0} \cup Capacities

VARIABLES
    cache,          \* self._cache: key -> [value, prev, next]
    lru_key,        \* self._lru_key
    mru_key,        \* self._mru_key
    current_size,   \* self._current_size
    max_size,       \* self._max_size
    op,             \* the last call: [name, key, value]
    ret,            \* what the last call returned (None when nothing)
    raised,         \* TRUE iff the last call raised (KeyError; ValueError from __init__)
    hit,            \* TRUE iff the last call found its key in the cache
                    \* (reset: found the cache non-empty)
    full,           \* TRUE iff current_size = max_size when the last call began
    touched,        \* reference touch history: present keys, least recently touched first
    lastput         \* reference value history: present key -> value of the last put on it
                    \* that returned

vars == <<cache, lru_key, mru_key, current_size, max_size, op, ret, raised, hit, full,
          touched, lastput>>

\* the mutable fields of the object, as one record
Self == [cache |-> cache, lru_key |-> lru_key, mru_key |-> mru_key,
         current_size |-> current_size]

EmptyCache == [k \in {} |-> None]

\* the object as __init__ leaves it
Fresh == [cache |-> EmptyCache, lru_key |-> None, mru_key |-> None, current_size |-> 0]

Entry(v, p, n) == [value |-> v, prev |-> p, next |-> n]

\* d[key] = e  (insert or overwrite)
DictSet(d, key, e) == [k \in (DOMAIN d) \cup {key} |-> IF k = key THEN e ELSE d[k]]

\* del d[key]
DictDel(d, key) == [k \in (DOMAIN d) \ {key} |-> d[k]]

\* outcomes of a call: the object afterwards, the return value, raised or not
Returns(s, r) == [s |-> s, ret |-> r, raised |-> FALSE]
Raises(s) == [s |-> s, ret |-> None, raised |-> TRUE]

\* _update_existing_key_position_context(key); key is in s.cache
UpdateCtx(s, key) ==
    LET prev_key == s.cache[key].prev
        next_key == s.cache[key].next
    IN  IF next_key = None
        THEN Returns(s, FALSE)
        ELSE IF prev_key = None
        THEN LET s1 == [s EXCEPT !.lru_key = next_key]
             IN  IF next_key \notin DOMAIN s1.cache
                 THEN Raises(s1)
                 ELSE Returns([s1 EXCEPT !.cache[next_key].prev = None], TRUE)
        ELSE IF prev_key \notin DOMAIN s.cache
             THEN Raises(s)
             ELSE LET s1 == [s EXCEPT !.cache[prev_key].next = next_key]
                  IN  IF next_key \notin DOMAIN s1.cache
                      THEN Raises(s1)
                      ELSE Returns([s1 EXCEPT !.cache[next_key].prev = prev_key], TRUE)

\* put, lines 95-106: link key behind the current mru key
PutAppend(s, key, value) ==
    IF s.mru_key # None /\ s.mru_key \notin DOMAIN s.cache
    THEN Raises(s)
    ELSE LET s1 == IF s.mru_key # None
                   THEN [s EXCEPT !.cache[s.mru_key].next = key]
                   ELSE s
             s2 == IF s1.lru_key = None THEN [s1 EXCEPT !.lru_key = key] ELSE s1
             s3 == [s2 EXCEPT !.cache = DictSet(s2.cache, key,
                                                Entry(value, s2.mru_key, None))]
         IN  Returns([s3 EXCEPT !.mru_key = key], None)

\* put, lines 76-92: the new key meets a full cache
PutEvict(s, key, value) ==
    IF s.lru_key \notin DOMAIN s.cache
    THEN Raises(s)
    ELSE LET upcoming_lru_key == s.cache[s.lru_key].next
         IN  IF upcoming_lru_key = None
             THEN LET c1 == DictDel(s.cache, s.lru_key)
                      c2 == DictSet(c1, key, Entry(value, None, None))
                  IN  Returns([s EXCEPT !.cache = c2, !.lru_key = key,
                                        !.mru_key = key], None)
             ELSE IF upcoming_lru_key \notin DOMAIN s.cache
             THEN Raises(s)
             ELSE LET s1 == [s EXCEPT !.cache[upcoming_lru_key].prev = None]
                      s2 == [s1 EXCEPT !.cache = DictDel(s1.cache, s1.lru_key)]
                      s3 == [s2 EXCEPT !.lru_key = upcoming_lru_key]
                  IN  PutAppend(s3, key, value)

\* put, lines 67-72 and 95-106: key is in s.cache
PutHit(s, key, value) ==
    LET u == UpdateCtx(s, key)
    IN  IF u.raised
        THEN Raises(u.s)
        ELSE IF ~u.ret
        THEN Returns([u.s EXCEPT !.cache[key].value = value], None)
        ELSE PutAppend(u.s, key, value)

\* a put that never looks at max_size: every new key just grows the cache
PutOpNeverEvicts(s, cap, key, value) ==
    IF key \in DOMAIN s.cache
    THEN PutHit(s, key, value)
    ELSE PutAppend([s EXCEPT !.current_size = @ + 1], key, value)

\* put(key, value)
PutOp(s, cap, key, value) ==
    IF key \in DOMAIN s.cache
    THEN PutHit(s, key, value)
    ELSE IF s.current_size = cap
         THEN PutEvict(s, key, value)
         ELSE PutAppend([s EXCEPT !.current_size = @ + 1], key, value)

\* get, lines 113-118: make key the most recently used key
GetRelink(s, key, value) ==
    IF s.mru_key # None /\ s.mru_key \notin DOMAIN s.cache
    THEN Raises(s)
    ELSE LET s1 == IF s.mru_key # None
                   THEN LET a == [s EXCEPT !.cache[s.mru_key].next = key]
                            b == [a EXCEPT !.cache[key].prev = a.mru_key]
                        IN  [b EXCEPT !.cache[key].next = None]
                   ELSE s
         IN  Returns([s1 EXCEPT !.mru_key = key], value)

\* get, lines 110-118: key is in s.cache
GetHit(s, key) ==
    LET value == s.cache[key].value
        u == UpdateCtx(s, key)
    IN  IF u.raised THEN Raises(u.s) ELSE GetRelink(u.s, key, value)

\* a get whose "self._mru_key = key" runs for absent keys too
GetOpMarksAbsentKey(s, key) ==
    IF key \in DOMAIN s.cache
    THEN GetHit(s, key)
    ELSE Returns([s EXCEPT !.mru_key = key], None)

\* get(key)
GetOp(s, key) ==
    IF key \in DOMAIN s.cache
    THEN GetHit(s, key)
    ELSE Returns(s, None)

\* a delete that forgets "self._current_size -= 1"
DeleteUnlinkKeepsCount(s, key) ==
    LET s1 == IF key = s.lru_key THEN [s EXCEPT !.lru_key = None] ELSE s
        s2 == IF key = s1.mru_key THEN [s1 EXCEPT !.mru_key = None] ELSE s1
    IN  Returns([s2 EXCEPT !.cache = DictDel(s2.cache, key)], None)

\* delete, lines 136-142
DeleteUnlink(s, key) ==
    LET s1 == IF key = s.lru_key THEN [s EXCEPT !.lru_key = None] ELSE s
        s2 == IF key = s1.mru_key THEN [s1 EXCEPT !.mru_key = None] ELSE s1
        s3 == [s2 EXCEPT !.cache = DictDel(s2.cache, key)]
    IN  Returns([s3 EXCEPT !.current_size = @ - 1], None)

\* delete, lines 126-142: key is in s.cache
DeleteHit(s, key) ==
    LET u == UpdateCtx(s, key)
    IN  IF u.raised
        THEN Raises(u.s)
        ELSE IF ~u.ret
        THEN LET new_mru == u.s.cache[key].prev
             IN  IF new_mru = None
                 THEN DeleteUnlink(u.s, key)
                 ELSE IF new_mru \notin DOMAIN u.s.cache
                 THEN Raises(u.s)
                 ELSE DeleteUnlink([u.s EXCEPT !.cache[new_mru].next = None,
                                              !.mru_key = new_mru], key)
        ELSE DeleteUnlink(u.s, key)

\* a delete whose "self._current_size -= 1" runs for absent keys too
DeleteOpAlwaysCounts(s, key) ==
    IF key \in DOMAIN s.cache
    THEN DeleteHit(s, key)
    ELSE Returns([s EXCEPT !.current_size = @ - 1], None)

\* delete(key)
DeleteOp(s, key) ==
    IF key \in DOMAIN s.cache
    THEN DeleteHit(s, key)
    ELSE Returns(s, None)

\* a reset that leaves self._lru_key as it was
ResetOpKeepsLru(s) ==
    Returns([cache |-> EmptyCache, lru_key |-> s.lru_key, mru_key |-> None,
             current_size |-> 0], None)

\* reset()
ResetOp(s) ==
    Returns([cache |-> EmptyCache, lru_key |-> None, mru_key |-> None,
             current_size |-> 0], None)

\* ------------------------------------------------- reference touch history
RECURSIVE Without(_, _)
Without(seq, k) ==
    IF seq = <<>> THEN <<>>
    ELSE IF Head(seq) = k THEN Without(Tail(seq), k)
    ELSE <<Head(seq)>> \o Without(Tail(seq), k)

Touch(seq, k) == Append(Without(seq, k), k)

\* the history restricted to the keys in present; a key that is absent
\* re-enters only through put, which touches it, so nothing is lost
RECURSIVE Restrict(_, _)
Restrict(seq, present) ==
    IF seq = <<>> THEN <<>>
    ELSE IF Head(seq) \in present THEN <<Head(seq)>> \o Restrict(Tail(seq), present)
    ELSE Restrict(Tail(seq), present)

\* ------------------------------------------------- reference value history
\* the history restricted to the keys in present (an absent key re-enters only
\* through put, which records its value)
Remember(h, present) == [k \in (DOMAIN h) \cap present |-> h[k]]

\* ------------------------------------------------------------ the machine
\* __init__(max_size) with max_size >= 1
Init ==
    /\ max_size \in Capacities
    /\ cache = EmptyCache
    /\ lru_key = None
    /\ mru_key = None
    /\ current_size = 0
    /\ op = [name |-> "init", key |-> None, value |-> None]
    /\ ret = None
    /\ raised = FALSE
    /\ hit = FALSE
    /\ full = FALSE
    /\ touched = <<>>
    /\ lastput = EmptyCache

Apply(r) ==
    /\ cache' = r.s.cache
    /\ lru_key' = r.s.lru_key
    /\ mru_key' = r.s.mru_key
    /\ current_size' = r.s.current_size
    /\ ret' = r.ret
    /\ raised' = r.raised
    /\ full' = (current_size = max_size)
    /\ UNCHANGED max_size

Put(key, value) ==
    /\ Apply(PutOp(Self, max_size, key, value))
    /\ op' = [name |-> "put", key |-> key, value |-> value]
    /\ hit' = (key \in DOMAIN cache)
    /\ touched' = Restrict(Touch(touched, key), DOMAIN cache')
    /\ lastput' = Remember(IF raised' THEN lastput ELSE DictSet(lastput, key, value),
                           DOMAIN cache')

Get(key) ==
    /\ Apply(GetOp(Self, key))
    /\ op' = [name |-> "get", key |-> key, value |-> None]
    /\ hit' = (key \in DOMAIN cache)
    /\ touched' = Restrict(IF key \in DOMAIN cache THEN Touch(touched, key) ELSE touched,
                         DOMAIN cache')
    /\ lastput' = Remember(lastput, DOMAIN cache')

Delete(key) ==
    /\ Apply(DeleteOp(Self, key))
    /\ op' = [name |-> "delete", key |-> key, value |-> None]
    /\ hit' = (key \in DOMAIN cache)
    /\ touched' = Restrict(touched, DOMAIN cache')
    /\ lastput' = Remember(lastput, DOMAIN cache')

Reset ==
    /\ Apply(ResetOp(Self))
    /\ op' = [name |-> "reset", key |-> None, value |-> None]
    /\ hit' = (DOMAIN cache # {})
    /\ touched' = <<>>
    /\ lastput' = EmptyCache

Next ==
    \/ \E key \in Keys, value \in Values : Put(key, value)
    \/ \E key \in Keys : Get(key)
    \/ \E key \in Keys : Delete(key)
    \/ Reset

Spec == Init /\ [][Next]_vars

\* --------------------------------------------- the machine, from __init__
\* an __init__ that rejects negative sizes only
ConstructAllowsZero(n) ==
    [raised |-> n < 0, max_size |-> n, s |-> Fresh]

\* __init__(max_size): raises ValueError when max_size < 1, else the empty cache
Construct(n) ==
    [raised |-> n < 1, max_size |-> n, s |-> Fresh]

\* the caller holds a cache: some __init__ has returned
Built == ~(op.name = "none" \/ (op.name = "init" /\ raised))

\* no call yet, no object
InitCreate ==
    /\ max_size = None
    /\ cache = EmptyCache
    /\ lru_key = None
    /\ mru_key = None
    /\ current_size = 0
    /\ op = [name |-> "none", key |-> None, value |-> None]
    /\ ret = None
    /\ raised = FALSE
    /\ hit = FALSE
    /\ full = FALSE
    /\ touched = <<>>
    /\ lastput = EmptyCache

\* LRUCache(n); when __init__ raises the caller gets no object
Create(n) ==
    /\ ~Built
    /\ LET c == Construct(n)
       IN  /\ raised' = c.raised
           /\ IF c.raised
              THEN UNCHANGED <<cache, lru_key, mru_key, current_size, max_size>>
              ELSE /\ cache' = c.s.cache
                   /\ lru_key' = c.s.lru_key
                   /\ mru_key' = c.s.mru_key
                   /\ current_size' = c.s.current_size
                   /\ max_size' = c.max_size
    /\ op' = [name |-> "init", key |-> None, value |-> n]
    /\ ret' = None
    /\ hit' = FALSE
    /\ full' = FALSE
    /\ touched' = <<>>
    /\ lastput' = EmptyCache

NextCreate ==
    \/ \E n \in CapacityArgs : Create(n)
    \/ Built /\ Next

SpecCreate == InitCreate /\ [][NextCreate]_vars

\* ------------------------------------------------------- claim vocabulary
Present == DOMAIN cache

\* the keys met from k by following field ("next" or "prev"), at most fuel of them
RECURSIVE Walk(_, _, _, _)
Walk(c, k, field, fuel) ==
    IF fuel = 0 \/ k = None \/ k \notin DOMAIN c
    THEN <<>>
    ELSE <<k>> \o Walk(c, c[k][field], field, fuel - 1)

Range(seq) == {seq[i] : i \in 1..Len(seq)}

Reverse(seq) == [i \in 1..Len(seq) |-> seq[Len(seq) + 1 - i]]

Forward == Walk(cache, lru_key, "next", Cardinality(Present) + 1)
Backward == Walk(cache, mru_key, "prev", Cardinality(Present) + 1)

\* the last call was name(key, ...) and it is the call this step made
Called(name) == op'.name = name

\* the object's fields, apart from the call history
Fields == <<cache, lru_key, mru_key, current_size, max_size>>

\* C1: in every reachable state the links form one chain: following next from
\* lru_key visits every key of the map exactly once and ends at mru_key, whose
\* next is None; following prev from mru_key reaches lru_key, whose prev is None.
OneChain ==
    /\ Len(Forward) = Cardinality(Present)
    /\ Range(Forward) = Present
    /\ Backward = Reverse(Forward)
    /\ IF Present = {}
       THEN lru_key = None /\ mru_key = None
       ELSE /\ Forward[1] = lru_key
            /\ Forward[Len(Forward)] = mru_key
            /\ cache[mru_key].next = None
            /\ cache[lru_key].prev = None

\* C2: a put of a key that is not in the cache, at current_size = max_size,
\* removes exactly one key, the present key whose last touch (put or found
\* get) is the oldest according to the reference touch history.
EvictsLeastRecentlyTouched ==
    [][(Called("put") /\ op'.key \notin Present /\ current_size = max_size)
         => (touched # <<>> /\ Present \ DOMAIN cache' = {Head(touched)})]_vars

\* a key k leaves the map in this step although another present key was
\* touched before it
EvictsOutOfTurn ==
    \E k \in Present \ DOMAIN cache' :
        \E i, j \in 1..Len(touched) : i < j /\ touched[j] = k /\ touched[i] \in DOMAIN cache'

\* C3: get(k) or put(k, v) on a present key k makes k the mru key; no eviction
\* removes a key while another present key was last touched before it; with
\* capacity >= 2 and a full cache, the put of a new key right after touching k
\* does not evict k.
TouchedKeyIsProtected ==
    [][/\ ((Called("get") \/ Called("put")) /\ op'.key \in Present)
          => mru_key' = op'.key
       /\ (Called("put") /\ op'.key \notin Present /\ current_size = max_size)
          => ~EvictsOutOfTurn
       /\ (/\ op.name \in {"get", "put"} /\ op.key \in Present
           /\ max_size >= 2 /\ current_size = max_size
           /\ Called("put") /\ op'.key \notin Present)
          => op.key \in DOMAIN cache']_vars

\* C4: no call of put, get, delete or reset raises an error.
NeverRaises == raised = FALSE

\* C5: in every reachable state 0 <= current_size <= max_size.
SizeWithinCapacity == 0 <= current_size /\ current_size <= max_size

\* a put of a new key has acted on a full cache of capacity 2 or more and
\* left current_size at max_size
SizeWitness ==
    /\ op.name = "put" /\ ~hit /\ full /\ ~raised
    /\ max_size >= 2 /\ current_size = max_size

\* C6: put(k, v) immediately followed by get(k) returns v.
PutThenGet ==
    [][(op.name = "put" /\ Called("get") /\ op'.key = op.key)
         => (~raised' /\ ret' = op.value)]_vars

\* C7: delete(k) of a present key k decreases current_size by exactly 1,
\* removes k and no other key, and a following get(k) returns not found;
\* delete(k) of an absent key leaves current_size unchanged.
DeleteRemovesOnlyKey ==
    [][Called("delete")
         => IF op'.key \in Present
            THEN /\ ~raised'
                 /\ current_size' = current_size - 1
                 /\ DOMAIN cache' = Present \ {op'.key}
                 /\ GetOp(Self', op'.key) = Returns(Self', None)
            ELSE current_size' = current_size]_vars

\* C8: get(k) of a key that is not in the cache returns None, raises nothing
\* and leaves the map, every value and link, lru_key, mru_key, current_size and
\* max_size unchanged.
GetMissChangesNothing ==
    [][(Called("get") /\ op'.key \notin Present)
         => (ret' = None /\ ~raised' /\ UNCHANGED Fields)]_vars

\* a get of an absent key has acted on a cache that holds other keys
GetMissWitness ==
    op.name = "get" /\ ~hit /\ op.key \notin Present /\ Cardinality(Present) >= 2

\* C9: delete(k) of a key that is not in the cache raises nothing and leaves
\* the map, every value and link, lru_key, mru_key, current_size and max_size
\* unchanged.
DeleteMissChangesNothing ==
    [][(Called("delete") /\ op'.key \notin Present)
         => (~raised' /\ UNCHANGED Fields)]_vars

\* a delete of an absent key has acted on a cache that holds other keys
DeleteMissWitness ==
    op.name = "delete" /\ ~hit /\ op.key \notin Present /\ Cardinality(Present) >= 2

\* C10: reset() yields current_size = 0, an empty map, lru_key and mru_key
\* None and max_size unchanged; get of every previously present key then
\* returns None; the object equals a freshly constructed one of that capacity.
ResetEmpties ==
    [][Called("reset")
         => /\ ~raised'
            /\ current_size' = 0 /\ cache' = EmptyCache
            /\ lru_key' = None /\ mru_key' = None
            /\ max_size' = max_size
            /\ Self' = Fresh
            /\ \A k \in Present : GetOp(Self', k) = Returns(Self', None)]_vars

\* reset has acted on a non-empty cache
ResetWitness == op.name = "reset" /\ hit /\ Present = {} /\ current_size = 0

\* C11: construction with a capacity below 1 fails with the invalid-capacity
\* error and produces no cache; construction with a capacity of 1 or more
\* succeeds and yields the empty state with max_size equal to that capacity.
ConstructionChecksCapacity ==
    op.name = "init"
        => IF op.value < 1
           THEN raised /\ ~Built /\ max_size = None /\ Self = Fresh
           ELSE ~raised /\ Built /\ max_size = op.value /\ Self = Fresh

\* a construction with capacity 0 has failed
ConstructionWitness == op.name = "init" /\ op.value = 0 /\ raised

\* C12: put(k, v) immediately followed by a second put(k, v) leaves
\* current_size, the set of present keys, every value and the recency order
\* (every link, lru_key, mru_key) as the first put left them, with mru_key = k.
SecondPutChangesNothing ==
    op.name = "put"
        => LET second == PutOp(Self, max_size, op.key, op.value)
           IN  ~second.raised /\ second.s = Self /\ mru_key = op.key

\* C13: every call either completes and leaves a state that satisfies the
\* ordering invariant, or has no effect at all; in particular no call stops
\* with an error after it has changed a link, lru_key, mru_key, the map or
\* current_size.
CompletesOrNoEffect ==
    [][(~raised' /\ OneChain') \/ UNCHANGED Fields]_vars

\* C14: get(k) of the key that is already mru_key changes no link (k's own
\* prev included), nor lru_key, mru_key, the map or current_size.
GetOfMruChangesNothing ==
    [][(Called("get") /\ op'.key \in Present /\ op'.key = mru_key)
         => (~raised' /\ UNCHANGED Fields)]_vars

\* C15: at current_size = max_size the put of an absent key k removes exactly
\* the entry named by lru_key, adds k with value v as mru_key, keeps
\* current_size = max_size and sets lru_key to the evicted entry's former
\* next (or to k when it had none, which happens only when max_size is 1).
EvictsEntryAtLruKey ==
    [][(Called("put") /\ op'.key \notin Present /\ current_size = max_size)
         => /\ ~raised'
            /\ lru_key \in Present
            /\ DOMAIN cache' = (Present \ {lru_key}) \cup {op'.key}
            /\ cache'[op'.key].value = op'.value
            /\ mru_key' = op'.key
            /\ current_size' = max_size
            /\ IF cache[lru_key].next = None
               THEN lru_key' = op'.key /\ max_size = 1
               ELSE lru_key' = cache[lru_key].next]_vars

\* C16: lru_key is None iff current_size = 0, mru_key is None iff
\* current_size = 0, and when they are not None each names a present key.
EndKeysMatchSize ==
    /\ (lru_key = None) <=> (current_size = 0)
    /\ (mru_key = None) <=> (current_size = 0)
    /\ lru_key # None => lru_key \in Present
    /\ mru_key # None => mru_key \in Present

LinksArePresentKeys ==
    \A k \in Present :
        /\ cache[k].prev \in (Present \cup {None}) \ {k}
        /\ cache[k].next \in (Present \cup {None}) \ {k}

\* the object after put(keys[1], vals[1]); ...; put(keys[n], vals[n])
RECURSIVE PutAll(_, _, _, _)
PutAll(s, cap, keys, vals) ==
    IF keys = <<>>
    THEN s
    ELSE PutAll(PutOp(s, cap, Head(keys), Head(vals)).s, cap, Tail(keys), Tail(vals))

\* the sequences of max_size pairwise distinct keys that are not in the cache
NewKeyRuns ==
    {keys \in [1..max_size -> Keys \ Present] :
        \A i, j \in 1..max_size : i # j => keys[i] # keys[j]}

\* C19: no entry can be pinned: from any reachable state, after max_size
\* consecutive puts of pairwise distinct keys that were not in the cache, the
\* map holds exactly those keys and none of the keys present before.
NoKeyIsPinned ==
    \A keys \in NewKeyRuns, vals \in [1..max_size -> Values] :
        DOMAIN PutAll(Self, max_size, keys, vals).cache = Range(keys)

\* C20: stored values change only by put on their own key: get(k) of a
\* present key returns the value of the most recent put(k, .) that returned,
\* and get, delete and put on another key (a put that evicts included) leave
\* the value stored for every other remaining key unchanged.
ValuesChangeOnlyByOwnPut ==
    [][/\ (Called("get") /\ op'.key \in Present)
          => (~raised' /\ op'.key \in DOMAIN lastput /\ ret' = lastput[op'.key])
       /\ \A k \in Present \cap DOMAIN cache' :
            (Called("put") /\ op'.key = k) \/ cache'[k].value = cache[k].value]_vars

====
